---- MODULE Spec2Model ----
(***************************************************************************)
(* A model of bitvec's bit-region pointer encoding (src/src/ptr.rs).       *)
(*                                                                         *)
(* A BitPtr<O, T> is two machine words, `ptr` and `len`.  The model keeps  *)
(* both words as naturals below 2^WordBits and computes every accessor,    *)
(* constructor and mutator on them with the shifts and masks of the        *)
(* source.  An element type T is named by T::Mem::INDX, the base-2         *)
(* logarithm of its bit width: 3 is u8, 4 is u16, 5 is u32 and 6 is u64.   *)
(* Option::<BitPtr>::None is the all-zero pair of words, as the niche in   *)
(* `ptr: NonNull<u8>` makes it in the compiled program.                    *)
(*                                                                         *)
(* Memory is the set of its bits that are 1, a bit being named by          *)
(* 8 * byte address + position in the byte; read, write and align_to are   *)
(* followed down to these bits, for both bit orderings and byte orders.    *)
(***************************************************************************)
EXTENDS Integers, FiniteSets, Sequences, TLC

VARIABLES
    T,      \* the element type parameter of the pointer, as T::Mem::INDX
    op,     \* the operation that produced this state
    arg,    \* its arguments: [a |-> address or word, h |-> head, n |-> bits]
    pre,    \* the pointer the operation, or the run of them, was called on
    bp,     \* the pointer after the operation / the value it returned
    out,    \* "some", "none", "panic" or "ub"
    ret,    \* what an accessor returned
    flag,   \* the boolean a comparison returned
    cnt,    \* how many times incr_head has run since Init
    U,      \* the element type align_to reinterprets to, as U::Mem::INDX
    order,  \* the ordering parameter O of the pointer: "Lsb0" or "Msb0"
    endian, \* the byte order of the target: "little" or "big"
    dom,    \* the Domain of the region align_to was called on
    parts,  \* what slice::align_to made of the domain's body
    center, \* the second pointer align_to returned (the first is bp)
    right,  \* the third pointer align_to returned
    mem,    \* the memory bits that are 1, each as 8 * byte address + bit
    mem0,   \* mem before the first write
    access, \* T::Access: "plain" or "atomic"
    shared, \* whether the writers run on two threads
    w,      \* the writers: their pointer, index, value and progress
    capacity \* the elements a BitVec has allocated

\* What the encoding alone never touches.
ext == <<U, order, endian, dom, parts, center, right,
         mem, mem0, access, shared, w, capacity>>

vars == <<T, op, arg, pre, bp, out, ret, flag, cnt, ext>>

----------------------------------------------------------------------------
(* Bounds of the model.                                                    *)

\* Width of usize and of a pointer in the model (64 on the usual target).
WordBits == 10
\* Addresses are drawn this many half-element steps from both ends of memory.
MaxAddrSteps == 4
\* Bit lengths 0 .. MaxSmallLen are drawn besides the ones near the maximum.
MaxSmallLen == 9
\* Bit lengths 0 .. MaxMutLen of the pointers the mutators are applied to.
MaxMutLen == 5
\* incr_head is followed this many calls past one full element.
MaxExtraIncr == 2
\* ptr_diff is taken between bits of an allocation of this many elements.
MaxDiffElts == 2
\* A BitArray has 1 .. MaxArrayElts elements.
MaxArrayElts == 2
\* An allocation may be up to MaxSlack elements larger than was asked.
MaxSlack == 1
\* A pointer goes through up to MaxSteps mutators, one after another.
MaxSteps == 3

----------------------------------------------------------------------------
(* Machine arithmetic on WordBits-wide unsigned words.                     *)

Top == 2 ^ WordBits

RECURSIVE BitAnd(_, _)
BitAnd(x, y) ==
    IF x = 0 \/ y = 0 THEN 0
    ELSE (x % 2) * (y % 2) + 2 * BitAnd(x \div 2, y \div 2)

RECURSIVE BitOr(_, _)
BitOr(x, y) ==
    IF x = 0 THEN y
    ELSE IF y = 0 THEN x
    ELSE (IF (x % 2) + (y % 2) > 0 THEN 1 ELSE 0)
         + 2 * BitOr(x \div 2, y \div 2)

\* !x on a usize
BitNot(x) == (Top - 1) - x

\* x << k on a usize: bits shifted past the top are lost
Shl(x, k) == (x * (2 ^ k)) % Top

\* x >> k
Shr(x, k) == x \div (2 ^ k)

\* usize::trailing_zeros
RECURSIVE trailing_zeros(_)
trailing_zeros(x) ==
    IF x = 0 THEN WordBits
    ELSE IF x % 2 = 1 THEN 0
    ELSE 1 + trailing_zeros(x \div 2)

\* `x as u8`
AsU8(x) == x % 256

\* `x as i8` of a u8
AsI8(x) == IF x >= 128 THEN x - 256 ELSE x

\* a usize read as an isize
AsIsize(x) == IF x >= Top \div 2 THEN x - Top ELSE x

----------------------------------------------------------------------------
(* Element types: BitMemory's associated constants.                        *)

Types == {3, 4, 5, 6}

INDX(t) == t

BITS(t) == 2 ^ t

MASK(t) == BITS(t) - 1

\* mem::size_of::<T>(), in bytes
size_of(t) == BITS(t) \div 8

\* NonNull::<T>::dangling(): the alignment of T as an address
dangling(t) == size_of(t)

----------------------------------------------------------------------------
(* BitPtr's mask and width constants.                                      *)

LEN_HEAD_BITS == 3

LEN_HEAD_MASK == 7

PTR_HEAD_BITS(t) == INDX(t) - LEN_HEAD_BITS

PTR_ADDR_MASK(t) == Shl(BitNot(0), PTR_HEAD_BITS(t))

PTR_HEAD_MASK(t) == BitNot(PTR_ADDR_MASK(t))

\* The length limit taken as the whole word.
REGION_MAX_BITS_whole_word == BitNot(0)

REGION_MAX_BITS == Shr(BitNot(0), LEN_HEAD_BITS)

----------------------------------------------------------------------------
(* Values.                                                                 *)

\* The two words of a BitPtr.
Ptr(p, l) == [ptr |-> p, len |-> l]

\* The all-zero pattern: Option::<BitPtr>::None.
None == Ptr(0, 0)

\* What a call gives back: its outcome and, when there is one, the pointer.
Some(v) == [out |-> "some", val |-> v]

NoValue == [out |-> "none", val |-> None]

Panic == [out |-> "panic", val |-> None]

NoArg == [a |-> 0, h |-> 0, n |-> 0]

Args(a, h, n) == [a |-> a, h |-> h, n |-> n]

\* No Domain, and no split of a body.
NoDomain == [enclave |-> FALSE]

NoParts == [l |-> 0, c |-> 0, r |-> 0]

\* The state of what a run does not use: no reinterpretation, no memory,
\* no writers.
ExtIdle ==
    /\ U = T
    /\ order = "Lsb0"
    /\ endian = "little"
    /\ dom = NoDomain
    /\ parts = NoParts
    /\ center = None
    /\ right = None
    /\ mem = {}
    /\ mem0 = {}
    /\ access = "plain"
    /\ shared = FALSE
    /\ w = <<>>
    /\ capacity = 0

----------------------------------------------------------------------------
(* Address<T>.                                                             *)

\* Address::new: NonNull::new(addr as *mut T)
Address_new(a) == IF a = 0 THEN NoValue ELSE Some(Ptr(a, 0))

\* From<*const T> / From<*mut T>: Address::new(addr).expect(..)
Address_from_ptr(a) ==
    IF Address_new(a).out = "none" THEN Panic ELSE Address_new(a)

----------------------------------------------------------------------------
(* Decoding.                                                               *)

pointer(t, p) == BitAnd(p.ptr, PTR_ADDR_MASK(t))

head(t, p) ==
    LET ptr_head == Shl(BitAnd(p.ptr, PTR_HEAD_MASK(t)), LEN_HEAD_BITS)
        len_head == BitAnd(p.len, LEN_HEAD_MASK)
    IN  AsU8(BitOr(ptr_head, len_head))

len(p) == Shr(p.len, LEN_HEAD_BITS)

raw_parts(t, p) == Args(pointer(t, p), head(t, p), len(p))

----------------------------------------------------------------------------
(* Constructors.                                                           *)

EMPTY(t) == Ptr(dangling(t), 0)

\* BitIdx::span(bits).0: how many elements a run of n bits starting at bit
\* h of its first element touches.
span(t, h, n) ==
    IF n = 0 THEN 0
    ELSE LET bits_in_head == BITS(t) - h IN
         IF n <= bits_in_head THEN 1
         ELSE LET bits_after_head == n - bits_in_head
                  elts == Shr(bits_after_head, INDX(t))
                  tl   == BitAnd(AsU8(bits_after_head), MASK(t))
              IN  elts + (IF tl = 0 THEN 1 ELSE 2)

\* <*const T>::wrapping_add(count): count elements further, modulo the
\* address space
wrapping_add(t, a, count) == (a + count * size_of(t)) % Top

\* new_unchecked or-ing the whole head index into the length word.
new_unchecked_head_unmasked(t, a, h, n) ==
    LET ptr_data == BitAnd(a, PTR_ADDR_MASK(t))
        ptr_head == Shr(h, LEN_HEAD_BITS)
        len_bits == Shl(n, LEN_HEAD_BITS)
        ptr      == Address_new(BitOr(ptr_data, ptr_head))
    IN  IF ptr.out = "none" THEN Panic
        ELSE Some(Ptr(ptr.val.ptr, BitOr(len_bits, h)))

\* new_unchecked losing the high bits of the head index.
new_unchecked_drops_ptr_head(t, a, h, n) ==
    LET ptr_data == BitAnd(a, PTR_ADDR_MASK(t))
        len_head == BitAnd(h, LEN_HEAD_MASK)
        len_bits == Shl(n, LEN_HEAD_BITS)
        ptr      == Address_new(ptr_data)
    IN  IF ptr.out = "none" THEN Panic
        ELSE Some(Ptr(ptr.val.ptr, BitOr(len_bits, len_head)))

\* new_unchecked without the null check on the packed address word.
new_unchecked_no_expect(t, a, h, n) ==
    LET ptr_data == BitAnd(a, PTR_ADDR_MASK(t))
        ptr_head == Shr(h, LEN_HEAD_BITS)
        len_head == BitAnd(h, LEN_HEAD_MASK)
        len_bits == Shl(n, LEN_HEAD_BITS)
    IN  Some(Ptr(BitOr(ptr_data, ptr_head), BitOr(len_bits, len_head)))

new_unchecked(t, a, h, n) ==
    LET ptr_data == BitAnd(a, PTR_ADDR_MASK(t))
        ptr_head == Shr(h, LEN_HEAD_BITS)
        len_head == BitAnd(h, LEN_HEAD_MASK)
        len_bits == Shl(n, LEN_HEAD_BITS)
        ptr      == Address_new(BitOr(ptr_data, ptr_head))
    IN  IF ptr.out = "none" THEN Panic
        ELSE Some(Ptr(ptr.val.ptr, BitOr(len_bits, len_head)))

\* The first `if` with `>=` for `>` on the length.
new_rejects_max_len(t, a, n) ==
    \/ a = 0
    \/ trailing_zeros(a) < PTR_HEAD_BITS(t)
    \/ n >= REGION_MAX_BITS

\* The first `if` asking for one alignment bit too few.
new_rejects_one_bit_short(t, a, n) ==
    \/ a = 0
    \/ trailing_zeros(a) + 1 < PTR_HEAD_BITS(t)
    \/ n > REGION_MAX_BITS

\* The three rejections of the first `if` of BitPtr::new.
new_rejects(t, a, n) ==
    \/ a = 0
    \/ trailing_zeros(a) < PTR_HEAD_BITS(t)
    \/ n > REGION_MAX_BITS

\* The wrap guard with `<=` for `<`.
new_wraps_or_equal(t, a, h, n) ==
    LET elts == span(t, h, n)
        last == wrapping_add(t, a, elts)
    IN  last <= a

\* The wrap guard of BitPtr::new.
new_wraps(t, a, h, n) ==
    LET elts == span(t, h, n)
        last == wrapping_add(t, a, elts)
    IN  last < a

\* BitPtr::new called with a raw pointer `a`
new(t, a, h, n) ==
    IF Address_from_ptr(a).out = "panic" THEN Panic
    ELSE IF new_rejects(t, a, n) THEN NoValue
    ELSE IF new_wraps(t, a, h, n) THEN NoValue
    ELSE new_unchecked(t, a, h, n)

\* uninhabited without the assert! on the alignment.
uninhabited_no_assert(t, a) ==
    IF Address_from_ptr(a).out = "panic" THEN Panic
    ELSE IF a = 0 THEN Some(EMPTY(t))
    ELSE Some(Ptr(a, 0))

uninhabited(t, a) ==
    IF Address_from_ptr(a).out = "panic" THEN Panic
    ELSE IF ~ (trailing_zeros(a) >= PTR_HEAD_BITS(t)) THEN Panic
    ELSE IF a = 0 THEN Some(EMPTY(t))
    ELSE Some(Ptr(a, 0))

\* from_bitslice_ptr on the raw wide pointer (p, l)
from_bitslice_ptr(t, p, l) ==
    IF p = 0 THEN EMPTY(t) ELSE Ptr(p, l)

\* to_bitslice_ptr: the same two words, as a *const BitSlice
to_bitslice_ptr(p) == Ptr(p.ptr, p.len)

bitslice_from_raw_parts(t, a, h, n) ==
    LET r == new(t, a, h, n)
    IN  IF r.out = "some" THEN Some(to_bitslice_ptr(r.val)) ELSE r

----------------------------------------------------------------------------
(* Inputs.                                                                 *)

\* Half an element, and at least one byte.
AddrUnit(t) == IF size_of(t) = 1 THEN 1 ELSE size_of(t) \div 2

\* Addresses at both ends of the address space, aligned and not, null
\* included.
AddrInputs(t) ==
    {k * AddrUnit(t) : k \in 0 .. MaxAddrSteps}
    \cup {Top - k * AddrUnit(t) : k \in 1 .. MaxAddrSteps}

\* Every BitIdx<T::Mem>.
HeadInputs(t) == 0 .. (BITS(t) - 1)

\* The lengths of the crate's tests (ptr.rs components, vec inspect).
TestLens == {20, 40}

LenInputs ==
    (0 .. MaxSmallLen) \cup TestLens
    \cup {REGION_MAX_BITS - 1, REGION_MAX_BITS, REGION_MAX_BITS + 1, Top - 1}

----------------------------------------------------------------------------
(* The constructors, each called once on fresh arguments.                  *)

Init ==
    /\ T \in Types
    /\ ExtIdle
    /\ op = "init"
    /\ arg = NoArg
    /\ pre = None
    /\ bp = None
    /\ out = "none"
    /\ ret = 0
    /\ flag = FALSE
    /\ cnt = 0

Result(name, args, r) ==
    /\ op' = name
    /\ arg' = args
    /\ bp' = r.val
    /\ out' = r.out
    /\ UNCHANGED <<T, pre, ret, flag, cnt, ext>>

CallAddressNew ==
    /\ op = "init"
    /\ \E a \in AddrInputs(T) :
          Result("Address::new", Args(a, 0, 0), Address_new(a))

CallAddressFrom ==
    /\ op = "init"
    /\ \E a \in AddrInputs(T) :
          Result("Address::from", Args(a, 0, 0), Address_from_ptr(a))

CallNew ==
    /\ op = "init"
    /\ \E a \in AddrInputs(T), h \in HeadInputs(T), n \in LenInputs :
          Result("new", Args(a, h, n), new(T, a, h, n))

CallNewUnchecked ==
    /\ op = "init"
    /\ \E a \in AddrInputs(T) \ {0}, h \in HeadInputs(T), n \in LenInputs :
          Result("new_unchecked", Args(a, h, n), new_unchecked(T, a, h, n))

CallUninhabited ==
    /\ op = "init"
    /\ \E a \in AddrInputs(T) :
          Result("uninhabited", Args(a, 0, 0), uninhabited(T, a))

CallDefault ==
    /\ op = "init"
    /\ Result("default", NoArg, Some(EMPTY(T)))

CallFromBitslicePtr ==
    /\ op = "init"
    /\ \E p \in AddrInputs(T), l \in LenInputs :
          Result("from_bitslice_ptr", Args(p, 0, l),
                 Some(from_bitslice_ptr(T, p, l)))

CallBitsliceFromRawParts ==
    /\ op = "init"
    /\ \E a \in AddrInputs(T), h \in HeadInputs(T), n \in LenInputs :
          Result("bitslice_from_raw_parts", Args(a, h, n),
                 bitslice_from_raw_parts(T, a, h, n))

Next ==
    \/ CallAddressNew
    \/ CallAddressFrom
    \/ CallNew
    \/ CallNewUnchecked
    \/ CallUninhabited
    \/ CallDefault
    \/ CallFromBitslicePtr
    \/ CallBitsliceFromRawParts

Spec == Init /\ [][Next]_vars

----------------------------------------------------------------------------
(* Mutators and computed information.                                      *)

\* set_pointer called with a raw pointer `a`; NonNull::new_unchecked of a
\* zero word is undefined.
set_pointer(t, p, a) ==
    IF Address_from_ptr(a).out = "panic" THEN Panic
    ELSE IF a = 0 THEN Some(EMPTY(t))
    ELSE LET masked     == BitAnd(a, PTR_ADDR_MASK(t))
             addr_value == BitOr(masked, BitAnd(p.ptr, PTR_HEAD_MASK(t)))
         IN  IF addr_value = 0 THEN [out |-> "ub", val |-> None]
             ELSE Some(Ptr(addr_value, p.len))

\* set_head rewriting the head bits of `len` and not those of `ptr`.
set_head_len_only(t, p, h) ==
    Ptr(p.ptr, BitOr(BitAnd(p.len, BitNot(LEN_HEAD_MASK)),
                     BitAnd(h, LEN_HEAD_MASK)))

\* set_head or-ing the low head bits into `len` without clearing the old.
set_head_keeps_len_head(t, p, h) ==
    LET ptr == BitOr(BitAnd(p.ptr, PTR_ADDR_MASK(t)), Shr(h, LEN_HEAD_BITS))
    IN  Ptr(ptr, BitOr(p.len, BitAnd(h, LEN_HEAD_MASK)))

set_head(t, p, h) ==
    LET ptr == BitOr(BitAnd(p.ptr, PTR_ADDR_MASK(t)), Shr(h, LEN_HEAD_BITS))
        l   == BitOr(BitAnd(p.len, BitNot(LEN_HEAD_MASK)),
                     BitAnd(h, LEN_HEAD_MASK))
    IN  Ptr(ptr, l)

\* set_len writing the shifted length over the whole word.
set_len_drops_head(p, new_len) ==
    Ptr(p.ptr, Shl(new_len, LEN_HEAD_BITS))

\* set_len as a release build runs it (the debug_assert! compiled out).
set_len(p, new_len) ==
    Ptr(p.ptr, BitOr(BitAnd(p.len, LEN_HEAD_MASK),
                     Shl(new_len, LEN_HEAD_BITS)))

\* elements counting from the length alone, without the head.
elements_of_len(t, p) ==
    LET total == len(p)
        base  == Shr(total, INDX(t))
        tl    == BitAnd(AsU8(total), MASK(t))
    IN  base + (IF tl # 0 THEN 1 ELSE 0)

\* elements without the fractional last element.
elements_rounds_down(t, p) ==
    Shr(len(p) + head(t, p), INDX(t))

elements(t, p) ==
    LET total == len(p) + head(t, p)
        base  == Shr(total, INDX(t))
        tl    == BitAnd(AsU8(total), MASK(t))
    IN  base + (IF tl # 0 THEN 1 ELSE 0)

\* tail without the remapping of an exact multiple to the element width.
tail_no_wrap(t, p) ==
    IF head(t, p) = 0 /\ len(p) = 0 THEN 0
    ELSE AsU8(BitAnd(head(t, p) + len(p), MASK(t)))

\* BitPtr::tail, as the value of the BitTail it returns.
tail(t, p) ==
    IF head(t, p) = 0 /\ len(p) = 0 THEN 0
    ELSE LET tl == BitAnd(head(t, p) + len(p), MASK(t))
         IN  BitOr(AsU8((IF tl = 0 THEN 1 ELSE 0) * (2 ^ INDX(t))), AsU8(tl))

\* PartialEq between a BitPtr<O, T> p and a BitPtr<O, U> q.
eq(t, u, p, q) ==
    /\ BITS(t) = BITS(u)
    /\ raw_parts(t, p).a = raw_parts(u, q).a
    /\ raw_parts(t, p).h = raw_parts(u, q).h
    /\ raw_parts(t, p).n = raw_parts(u, q).n

\* incr_head adding into `ptr` without erasing the old head bits.
incr_head_keeps_ptr_head(t, p) ==
    LET h1  == head(t, p) + 1
        l   == BitOr(BitAnd(p.len, BitNot(LEN_HEAD_MASK)),
                     BitAnd(h1, LEN_HEAD_MASK))
        sum == p.ptr + Shr(h1, LEN_HEAD_BITS)
    IN  [len |-> l, sum |-> sum]

\* incr_head without the addition of the head's high bits into `ptr`.
incr_head_no_carry(t, p) ==
    LET h1  == head(t, p) + 1
        l   == BitOr(BitAnd(p.len, BitNot(LEN_HEAD_MASK)),
                     BitAnd(h1, LEN_HEAD_MASK))
        sum == BitAnd(p.ptr, PTR_ADDR_MASK(t))
                   + BitAnd(Shr(h1, LEN_HEAD_BITS), PTR_HEAD_MASK(t))
    IN  [len |-> l, sum |-> sum]

\* incr_head up to the addition `ptr += head`: the new `len` word and the
\* sum, as a natural number.
incr_head(t, p) ==
    LET h1  == head(t, p) + 1
        l   == BitOr(BitAnd(p.len, BitNot(LEN_HEAD_MASK)),
                     BitAnd(h1, LEN_HEAD_MASK))
        sum == BitAnd(p.ptr, PTR_ADDR_MASK(t)) + Shr(h1, LEN_HEAD_BITS)
    IN  [len |-> l, sum |-> sum]

----------------------------------------------------------------------------
(* The mutators and accessors, each called once on a pointer that          *)
(* BitPtr::new returned.                                                   *)

MutLens ==
    (0 .. MaxMutLen) \cup TestLens \cup {REGION_MAX_BITS - 1, REGION_MAX_BITS}

InitMut ==
    /\ T \in Types
    /\ ExtIdle
    /\ \E a \in AddrInputs(T), h \in HeadInputs(T), n \in MutLens :
          /\ new(T, a, h, n).out = "some"
          /\ arg = Args(a, h, n)
          /\ bp = new(T, a, h, n).val
    /\ op = "new"
    /\ pre = bp
    /\ out = "some"
    /\ ret = 0
    /\ flag = FALSE
    /\ cnt = 0

CallSetHead ==
    /\ op = "new"
    /\ \E h \in HeadInputs(T) :
          /\ op' = "set_head"
          /\ arg' = Args(0, h, 0)
          /\ bp' = set_head(T, bp, h)
    /\ pre' = bp
    /\ UNCHANGED <<T, out, ret, flag, cnt, ext>>

\* Past REGION_MAX_BITS a debug build stops at the debug_assert! and a
\* release build packs the length as it is.
CallSetLen ==
    /\ op = "new"
    /\ \E n \in LenInputs :
          /\ op' = "set_len"
          /\ arg' = Args(0, 0, n)
          /\ \/ /\ out' = "some"
                /\ bp' = set_len(bp, n)
             \/ /\ n > REGION_MAX_BITS
                /\ out' = "panic"
                /\ bp' = bp
    /\ pre' = bp
    /\ UNCHANGED <<T, ret, flag, cnt, ext>>

CallSetPointer ==
    /\ op = "new"
    /\ \E a \in AddrInputs(T) :
          /\ op' = "set_pointer"
          /\ arg' = Args(a, 0, 0)
          /\ out' = set_pointer(T, bp, a).out
          /\ bp' = IF set_pointer(T, bp, a).out = "some"
                   THEN set_pointer(T, bp, a).val ELSE bp
    /\ pre' = bp
    /\ UNCHANGED <<T, ret, flag, cnt, ext>>

CallElements ==
    /\ op = "new"
    /\ op' = "elements"
    /\ ret' = elements(T, bp)
    /\ pre' = bp
    /\ UNCHANGED <<T, arg, bp, out, flag, cnt, ext>>

CallTail ==
    /\ op = "new"
    /\ op' = "tail"
    /\ ret' = tail(T, bp)
    /\ pre' = bp
    /\ UNCHANGED <<T, arg, bp, out, flag, cnt, ext>>

\* BitPtr::EMPTY == self
CallEqEmpty ==
    /\ op = "new"
    /\ op' = "eq"
    /\ flag' = eq(T, T, EMPTY(T), bp)
    /\ pre' = bp
    /\ UNCHANGED <<T, arg, bp, out, ret, cnt, ext>>

NextMut ==
    \/ CallSetHead
    \/ CallSetLen
    \/ CallSetPointer
    \/ CallElements
    \/ CallTail
    \/ CallEqEmpty

SpecMut == InitMut /\ [][NextMut]_vars

----------------------------------------------------------------------------
(* incr_head, called over and over on a pointer that BitPtr::new returned. *)

\* `ptr += head` past the top of the address space: a build with overflow
\* checks panics there, after `len` was written; one without wraps to the
\* null address and hands it to NonNull::new_unchecked.
CallIncrHead ==
    /\ op \in {"new", "incr_head"}
    /\ out = "some"
    /\ cnt < BITS(T) + MaxExtraIncr
    /\ op' = "incr_head"
    /\ cnt' = cnt + 1
    /\ LET r == incr_head(T, bp) IN
          \/ /\ r.sum < Top
             /\ bp' = Ptr(r.sum, r.len)
             /\ out' = "some"
          \/ /\ r.sum >= Top
             /\ bp' = Ptr(bp.ptr, r.len)
             /\ out' = "panic"
          \/ /\ r.sum >= Top
             /\ bp' = Ptr(r.sum % Top, r.len)
             /\ out' = "ub"
    /\ UNCHANGED <<T, arg, pre, ret, flag, ext>>

NextIncr == CallIncrHead

SpecIncr == InitMut /\ [][NextIncr]_vars

----------------------------------------------------------------------------
(* The mutators applied one after another to a pointer that BitPtr::new    *)
(* returned, beside the (address, head, len) record the same calls give;   *)
(* the record is kept in arg.                                              *)

\* Aligned addresses at the bottom, in the middle and at the top of the
\* address space.
StepAddrs(t) == {size_of(t), Top \div 2, Top - size_of(t)}

StepLens == {0, 1, MaxMutLen, REGION_MAX_BITS}

InitSteps ==
    /\ T \in Types
    /\ ExtIdle
    /\ \E a \in StepAddrs(T), h \in HeadInputs(T), n \in StepLens :
          /\ new(T, a, h, n).out = "some"
          /\ arg = Args(a, h, n)
          /\ bp = new(T, a, h, n).val
    /\ op = "new"
    /\ pre = None
    /\ out = "some"
    /\ ret = 0
    /\ flag = FALSE
    /\ cnt = 0

StepSetHead ==
    /\ cnt < MaxSteps
    /\ \E h \in HeadInputs(T) :
          /\ bp' = set_head(T, bp, h)
          /\ arg' = [arg EXCEPT !.h = h]
    /\ op' = "set_head"
    /\ cnt' = cnt + 1
    /\ UNCHANGED <<T, pre, out, ret, flag, ext>>

StepSetLen ==
    /\ cnt < MaxSteps
    /\ \E n \in StepLens :
          /\ bp' = set_len(bp, n)
          /\ arg' = [arg EXCEPT !.n = n]
    /\ op' = "set_len"
    /\ cnt' = cnt + 1
    /\ UNCHANGED <<T, pre, out, ret, flag, ext>>

StepSetPointer ==
    /\ cnt < MaxSteps
    /\ \E a \in StepAddrs(T) :
          /\ set_pointer(T, bp, a).out = "some"
          /\ bp' = set_pointer(T, bp, a).val
          /\ arg' = [arg EXCEPT !.a = a]
    /\ op' = "set_pointer"
    /\ cnt' = cnt + 1
    /\ UNCHANGED <<T, pre, out, ret, flag, ext>>

\* incr_head where the addition does not overflow the word.
StepIncrHead ==
    /\ cnt < MaxSteps
    /\ incr_head(T, bp).sum < Top
    /\ bp' = Ptr(incr_head(T, bp).sum, incr_head(T, bp).len)
    /\ arg' = IF arg.h + 1 < BITS(T) THEN [arg EXCEPT !.h = arg.h + 1]
              ELSE [arg EXCEPT !.h = 0, !.a = arg.a + size_of(T)]
    /\ op' = "incr_head"
    /\ cnt' = cnt + 1
    /\ UNCHANGED <<T, pre, out, ret, flag, ext>>

NextSteps ==
    \/ StepSetHead
    \/ StepSetLen
    \/ StepSetPointer
    \/ StepIncrHead

SpecSteps == InitSteps /\ [][NextSteps]_vars

----------------------------------------------------------------------------
(* ptr_diff, between two one-bit regions of one allocation.                *)

\* <*const T>::offset_from: the distance in bytes, as an isize, over the
\* size of T
offset_from(t, to, from) == AsIsize((to - from) % Top) \div size_of(t)

\* ptr_diff subtracting the heads as u8, without the casts to i8.
ptr_diff_unsigned_bits(t, self, other) ==
    LET elts == offset_from(t, pointer(t, other), pointer(t, self))
        bits == (head(t, other) - head(t, self)) % 256
    IN  <<elts, bits>>

ptr_diff(t, self, other) ==
    LET elts == offset_from(t, pointer(t, other), pointer(t, self))
        bits == AsI8(head(t, other)) - AsI8(head(t, self))
    IN  <<elts, bits>>

\* Where an allocation of MaxDiffElts elements can start.
AllocInputs(t) ==
    {a \in AddrInputs(t) :
        /\ a # 0
        /\ trailing_zeros(a) >= PTR_HEAD_BITS(t)
        /\ a + MaxDiffElts * size_of(t) < Top}

\* bits[i .. i + 1].bitptr() of a region that starts at bit 0 of `a`
bit_at(t, a, i) == new(t, a + (i \div BITS(t)) * size_of(t), i % BITS(t), 1)

\* arg holds the allocation's address and the two bit offsets.
InitDiff ==
    /\ T \in Types
    /\ ExtIdle
    /\ \E a \in AllocInputs(T),
          i \in 0 .. (MaxDiffElts * BITS(T) - 1),
          j \in 0 .. (MaxDiffElts * BITS(T) - 1) :
          /\ arg = Args(a, i, j)
          /\ pre = bit_at(T, a, i).val
          /\ bp = bit_at(T, a, j).val
    /\ op = "bitptr"
    /\ out = "some"
    /\ ret = <<0, 0>>
    /\ flag = FALSE
    /\ cnt = 0

\* pre.ptr_diff(&bp)
CallPtrDiff ==
    /\ op = "bitptr"
    /\ op' = "ptr_diff"
    /\ ret' = ptr_diff(T, pre, bp)
    /\ UNCHANGED <<T, arg, pre, bp, out, flag, cnt, ext>>

NextDiff == CallPtrDiff

SpecDiff == InitDiff /\ [][NextDiff]_vars

----------------------------------------------------------------------------
(* Bits in memory.                                                         *)

Orders == {"Lsb0", "Msb0"}

Endians == {"little", "big"}

\* BitOrder::at: the position, counted from the least significant bit of
\* the element, of the bit with index `bit`.
at(t, o, bit) == IF o = "Lsb0" THEN bit ELSE BITS(t) - 1 - bit

\* BitIdx::offset(index), for an index that is not negative: how many
\* elements further the bit lies, and its index there.
offset(t, h, index) ==
    LET far == h + index IN <<far \div BITS(t), far % BITS(t)>>

\* The memory bit that holds position `pos` of the element of type t at
\* address a.
cell(t, e, a, pos) ==
    LET byte == IF e = "little" THEN a + (pos \div 8)
                ELSE a + size_of(t) - 1 - (pos \div 8)
    IN  8 * byte + (pos % 8)

\* The memory bit that read(index) and write(index, _) on p address.
place(t, o, e, p, index) ==
    LET eb == offset(t, head(t, p), index)
    IN  cell(t, e, pointer(t, p) + eb[1] * size_of(t), at(t, o, eb[2]))

----------------------------------------------------------------------------
(* align_to.                                                               *)

\* A slice of elements: its address and how many elements it has.
Slice(a, n) == [addr |-> a, n |-> n]

\* An edge element of a Domain: its address and the index where the live
\* bits begin (head) or end (tail).
Edge(a, i) == [some |-> TRUE, addr |-> a, idx |-> i]

NoEdge == [some |-> FALSE, addr |-> 0, idx |-> 0]

Enclave == [enclave |-> TRUE]

Region(hd, body, tl) ==
    [enclave |-> FALSE, head |-> hd, body |-> body, tail |-> tl]

\* Domain::new on the region p: an Enclave, or a partial head element, a
\* body of whole elements and a partial tail element.  A region inside one
\* element that reaches exactly one edge of it is either an Enclave or a
\* partial edge with an empty body.
domain(t, p) ==
    LET h  == head(t, p)
        e  == span(t, h, len(p))
        tl == tail(t, p)
        a  == pointer(t, p)
        sz == size_of(t)
    IN  IF e = 0 THEN {Region(NoEdge, Slice(dangling(t), 0), NoEdge)}
        ELSE IF h = 0 /\ tl = BITS(t) THEN {Region(NoEdge, Slice(a, e), NoEdge)}
        ELSE IF tl = BITS(t) THEN
            {Region(Edge(a, h), Slice(a + sz, e - 1), NoEdge)}
            \cup (IF e = 1 THEN {Enclave} ELSE {})
        ELSE IF h = 0 THEN
            {Region(NoEdge, Slice(a, e - 1), Edge(a + (e - 1) * sz, tl))}
            \cup (IF e = 1 THEN {Enclave} ELSE {})
        ELSE IF e = 1 THEN {Enclave}
        ELSE {Region(Edge(a, h), Slice(a + sz, e - 2),
                     Edge(a + (e - 1) * sz, tl))}

\* <*const T>::align_offset(align_of::<U>()): how many elements of T to
\* skip to reach an address aligned for U
align_offset(t, u, a) ==
    IF size_of(u) <= size_of(t) THEN 0
    ELSE ((size_of(u) - (a % size_of(u))) % size_of(u)) \div size_of(t)

\* [T]::align_to::<U>: a prefix, the longest middle of whole aligned U and
\* a suffix; the library may also hand the whole slice back as the prefix.
slice_align_to(t, u, body) ==
    LET off   == align_offset(t, u, body.addr)
        whole == [l |-> body, c |-> Slice(dangling(u), 0),
                  r |-> Slice(dangling(t), 0)]
        rest  == body.n - off
        bytes == rest * size_of(t)
        us    == bytes \div size_of(u)
        ts    == (bytes % size_of(u)) \div size_of(t)
        split == [l |-> Slice(body.addr, off),
                  c |-> Slice(body.addr + off * size_of(t), us),
                  r |-> Slice(body.addr + (body.n - ts) * size_of(t), ts)]
    IN  IF off > body.n THEN {whole} ELSE {whole, split}

\* The left pointer starting at bit 0 of the head element.
align_to_left_from_zero(t, d, s) ==
    LET l_bits == s.l.n * BITS(t) IN
    IF d.head.some
    THEN new_unchecked(t, d.head.addr, 0,
                       BITS(t) - d.head.idx + l_bits).val
    ELSE IF l_bits = 0 THEN EMPTY(t)
    ELSE new_unchecked(t, s.l.addr, 0, l_bits).val

\* The left pointer of align_to.
align_to_left(t, d, s) ==
    LET l_bits == s.l.n * BITS(t) IN
    IF d.head.some
    THEN new_unchecked(t, d.head.addr, d.head.idx,
                       BITS(t) - d.head.idx + l_bits).val
    ELSE IF l_bits = 0 THEN EMPTY(t)
    ELSE new_unchecked(t, s.l.addr, 0, l_bits).val

\* The center pointer built whether or not the middle has elements.
align_to_center_unchecked(u, s) ==
    new_unchecked(u, s.c.addr, 0, s.c.n * BITS(u)).val

\* The center pointer of align_to.
align_to_center(u, s) ==
    LET c_bits == s.c.n * BITS(u) IN
    IF c_bits = 0 THEN EMPTY(u)
    ELSE new_unchecked(u, s.c.addr, 0, c_bits).val

\* The right pointer beginning in the tail element whenever there is one.
align_to_right_begins_in_tail(t, d, s) ==
    LET r_bits == s.r.n * BITS(t) IN
    IF d.tail.some
    THEN new_unchecked(t, d.tail.addr, 0, d.tail.idx + r_bits).val
    ELSE IF s.r.n # 0 THEN new_unchecked(t, s.r.addr, 0, r_bits).val
    ELSE EMPTY(t)

\* The right pointer without the live bits of the tail element.
align_to_right_drops_tail(t, d, s) ==
    LET r_bits == s.r.n * BITS(t) IN
    IF d.tail.some
    THEN new_unchecked(t, IF s.r.n = 0 THEN d.tail.addr ELSE s.r.addr,
                       0, r_bits).val
    ELSE IF s.r.n # 0 THEN new_unchecked(t, s.r.addr, 0, r_bits).val
    ELSE EMPTY(t)

\* The right pointer of align_to.
align_to_right(t, d, s) ==
    LET r_bits == s.r.n * BITS(t) IN
    IF d.tail.some
    THEN new_unchecked(t, IF s.r.n = 0 THEN d.tail.addr ELSE s.r.addr,
                       0, d.tail.idx + r_bits).val
    ELSE IF s.r.n # 0 THEN new_unchecked(t, s.r.addr, 0, r_bits).val
    ELSE EMPTY(t)

\* align_to handing an Enclave back as the right pointer.
align_to_enclave_right(t, u, p, d, s) ==
    IF d.enclave
    THEN [left |-> EMPTY(t), center |-> EMPTY(u), right |-> p]
    ELSE [left   |-> align_to_left(t, d, s),
          center |-> align_to_center(u, s),
          right  |-> align_to_right(t, d, s)]

\* BitPtr::<O, T>::align_to::<U> on p, given its Domain d and the split s
\* of the domain's body.
align_to(t, u, p, d, s) ==
    IF d.enclave
    THEN [left |-> p, center |-> EMPTY(u), right |-> EMPTY(t)]
    ELSE [left   |-> align_to_left(t, d, s),
          center |-> align_to_center(u, s),
          right  |-> align_to_right(t, d, s)]

\* Addresses in the middle of the address space, every alignment of the
\* widest element among them.
AlignAddrs(t) == {Top \div 2 + k * size_of(t) : k \in 0 .. MaxAddrSteps}

AlignHeads(t) == {0, 1, BITS(t) \div 2, BITS(t) - 1}

\* Lengths around one and two elements of every type.
AlignLens ==
    (0 .. MaxSmallLen) \cup TestLens
    \cup {n \in {k * BITS(t) + d : t \in Types, k \in 1 .. 2, d \in -1 .. 1} :
             n <= REGION_MAX_BITS}
    \cup {REGION_MAX_BITS - 1, REGION_MAX_BITS}

InitAlign ==
    /\ T \in Types
    /\ U \in Types
    /\ order \in Orders
    /\ endian \in Endians
    /\ \E a \in AlignAddrs(T), h \in AlignHeads(T), n \in AlignLens :
          /\ new(T, a, h, n).out = "some"
          /\ arg = Args(a, h, n)
          /\ bp = new(T, a, h, n).val
    /\ op = "new"
    /\ pre = bp
    /\ out = "some"
    /\ ret = 0
    /\ flag = FALSE
    /\ cnt = 0
    /\ dom = NoDomain
    /\ parts = NoParts
    /\ center = None
    /\ right = None
    /\ mem = {}
    /\ mem0 = {}
    /\ access = "plain"
    /\ shared = FALSE
    /\ w = <<>>
    /\ capacity = 0

\* bp.align_to::<U>(): the three pointers go to bp, center and right.
CallAlignTo ==
    /\ op = "new"
    /\ \E d \in domain(T, bp) :
          \E s \in (IF d.enclave THEN {NoParts}
                    ELSE slice_align_to(T, U, d.body)) :
             /\ dom' = d
             /\ parts' = s
             /\ bp' = align_to(T, U, bp, d, s).left
             /\ center' = align_to(T, U, bp, d, s).center
             /\ right' = align_to(T, U, bp, d, s).right
    /\ op' = "align_to"
    /\ pre' = bp
    /\ UNCHANGED <<T, arg, out, ret, flag, cnt, U, order, endian,
                   mem, mem0, access, shared, w, capacity>>

NextAlign == CallAlignTo

SpecAlign == InitAlign /\ [][NextAlign]_vars

----------------------------------------------------------------------------
(* read and write.                                                         *)

\* Loading the element of type t at address a: the positions of its bits
\* that are 1.
load(t, e, a, m) == {pos \in 0 .. (BITS(t) - 1) : cell(t, e, a, pos) \in m}

\* Storing the element v at address a.
store(t, e, a, v, m) ==
    (m \ {cell(t, e, a, pos) : pos \in 0 .. (BITS(t) - 1)})
    \cup {cell(t, e, a, pos) : pos \in v}

\* BitAccess::get_bit::<O> on a loaded element
get_bit(t, o, v, bit) == at(t, o, bit) \in v

\* What BitAccess::write_bit::<O> makes of the element v.
write_bit(t, o, v, bit, value) ==
    IF value THEN v \cup {at(t, o, bit)} ELSE v \ {at(t, o, bit)}

\* The address of the element `elt` elements after the first of p.
element_at(t, p, elt) == pointer(t, p) + elt * size_of(t)

read(t, o, e, p, index, m) ==
    LET eb == offset(t, head(t, p), index)
    IN  get_bit(t, o, load(t, e, element_at(t, p, eb[1]), m), eb[2])

\* write keeping nothing of the element but the bit it writes.
write_whole_element(t, o, e, p, index, value, m) ==
    LET eb == offset(t, head(t, p), index)
        a  == element_at(t, p, eb[1])
    IN  store(t, e, a, write_bit(t, o, {}, eb[2], value), m)

\* write at the head of the region, whatever the index.
write_at_head(t, o, e, p, index, value, m) ==
    LET eb == offset(t, head(t, p), 0)
        a  == element_at(t, p, eb[1])
    IN  store(t, e, a, write_bit(t, o, load(t, e, a, m), eb[2], value), m)

\* The memory after write(index, value) on p.
write(t, o, e, p, index, value, m) ==
    LET eb == offset(t, head(t, p), index)
        a  == element_at(t, p, eb[1])
    IN  store(t, e, a, write_bit(t, o, load(t, e, a, m), eb[2], value), m)

RWAddrs(t) == {Top \div 2 + k * size_of(t) : k \in 0 .. 1}

\* One bit, a few, a whole element and one bit more.
RWLens(t) == {1, MaxMutLen, BITS(t), BITS(t) + 1}

\* The memory bits of the elements p touches and of one element on either
\* side.
Storage(t, p) ==
    {8 * b + k :
        b \in (pointer(t, p) - size_of(t))
              .. (pointer(t, p) + (elements(t, p) + 1) * size_of(t) - 1),
        k \in 0 .. 7}

\* All bits clear, all set, and every third set.
MemInputs(t, p) ==
    {{}, Storage(t, p), {c \in Storage(t, p) : c % 3 = 0}}

InitRW ==
    /\ T \in Types
    /\ U = T
    /\ order \in Orders
    /\ endian \in Endians
    /\ \E a \in RWAddrs(T), h \in AlignHeads(T), n \in RWLens(T) :
          /\ new(T, a, h, n).out = "some"
          /\ arg = Args(a, h, n)
          /\ bp = new(T, a, h, n).val
    /\ mem \in MemInputs(T, bp)
    /\ mem0 = mem
    /\ op = "new"
    /\ pre = bp
    /\ out = "some"
    /\ ret = FALSE
    /\ flag = FALSE
    /\ cnt = 0
    /\ dom = NoDomain
    /\ parts = NoParts
    /\ center = None
    /\ right = None
    /\ access = "plain"
    /\ shared = FALSE
    /\ w = <<>>
    /\ capacity = 0

\* bp.write(index, value); arg.n holds the index and flag the value.
CallWrite ==
    /\ op = "new"
    /\ \E index \in 0 .. (len(bp) - 1), value \in BOOLEAN :
          /\ arg' = Args(0, 0, index)
          /\ flag' = value
          /\ mem' = write(T, order, endian, bp, index, value, mem)
    /\ op' = "write"
    /\ UNCHANGED <<T, pre, bp, out, ret, cnt, U, order, endian, dom, parts,
                   center, right, mem0, access, shared, w,
                   capacity>>

\* bp.read(index), right after the write to that index.
CallRead ==
    /\ op = "write"
    /\ op' = "read"
    /\ ret' = read(T, order, endian, bp, arg.n, mem)
    /\ UNCHANGED <<T, arg, pre, bp, out, flag, cnt, ext>>

NextRW ==
    \/ CallWrite
    \/ CallRead

SpecRW == InitRW /\ [][NextRW]_vars

----------------------------------------------------------------------------
(* Two writers on one element.                                             *)

\* The access types an element type can name as T::Access: a plain load
\* and store, or an atomic read-modify-write.
Accesses == {"plain", "atomic"}

\* Address::to_access viewing the address as plain memory.
to_access_as_mem(t_access) == "plain"

\* Address::to_access: the address as a *const T::Access; the write goes
\* through the access type of T.
to_access(t_access) == t_access

Writer(p, index, value) ==
    [p |-> p, index |-> index, value |-> value, pc |-> "ready", seen |-> {}]

\* The element a writer writes to, and the bit index in it.
target(t, x) ==
    LET eb == offset(t, head(t, x.p), x.index)
    IN  [addr |-> element_at(t, x.p, eb[1]), bit |-> eb[2]]

\* Where one element is cut in two regions.
CutInputs(t) == {1, BITS(t) \div 2, BITS(t) - 1}

\* One element cut at bit k into the regions of two writers.  Storage that
\* two threads share has an element type whose access is atomic; storage
\* with one owner is written by one thread, one write after the other.
InitRace ==
    /\ T \in Types
    /\ U = T
    /\ order \in Orders
    /\ endian \in Endians
    /\ access \in Accesses
    /\ shared \in BOOLEAN
    /\ shared => access = "atomic"
    /\ \E a \in RWAddrs(T), k \in CutInputs(T) :
          /\ arg = Args(a, k, BITS(T))
          /\ bp = new(T, a, 0, BITS(T)).val
          /\ \E i1 \in {0, k - 1}, i2 \in {0, BITS(T) - k - 1},
                v1 \in BOOLEAN, v2 \in BOOLEAN :
                w = <<Writer(new(T, a, 0, k).val, i1, v1),
                      Writer(new(T, a, k, BITS(T) - k).val, i2, v2)>>
    /\ mem \in MemInputs(T, bp)
    /\ mem0 = mem
    /\ op = "new"
    /\ pre = bp
    /\ out = "some"
    /\ ret = 0
    /\ flag = FALSE
    /\ cnt = 0
    /\ dom = NoDomain
    /\ parts = NoParts
    /\ center = None
    /\ right = None
    /\ capacity = 0

\* write through an atomic access: one read-modify-write of the element.
WriteAtomic ==
    /\ \E i \in 1 .. 2 :
          /\ w[i].pc = "ready"
          /\ to_access(access) = "atomic"
          /\ mem' = write(T, order, endian, w[i].p, w[i].index, w[i].value,
                          mem)
          /\ w' = [w EXCEPT ![i].pc = "done"]
    /\ op' = "write"
    /\ UNCHANGED <<T, arg, pre, bp, out, ret, flag, cnt, U, order, endian,
                   dom, parts, center, right, mem0, access, shared,
                   capacity>>

\* write through a plain access, first half: the element is loaded.  One
\* thread begins a write only when it is not in the middle of another.
WriteLoad ==
    /\ \E i \in 1 .. 2 :
          /\ w[i].pc = "ready"
          /\ to_access(access) = "plain"
          /\ shared \/ \A j \in 1 .. 2 : w[j].pc # "loaded"
          /\ w' = [w EXCEPT
                     ![i].pc = "loaded",
                     ![i].seen = load(T, endian, target(T, w[i]).addr, mem)]
    /\ op' = "write"
    /\ UNCHANGED <<T, arg, pre, bp, out, ret, flag, cnt, U, order, endian,
                   dom, parts, center, right, mem, mem0, access, shared,
                   capacity>>

\* write through a plain access, second half: the element that was loaded
\* is stored with the bit set or cleared.
WriteStore ==
    /\ \E i \in 1 .. 2 :
          /\ w[i].pc = "loaded"
          /\ mem' = store(T, endian, target(T, w[i]).addr,
                          write_bit(T, order, w[i].seen,
                                    target(T, w[i]).bit, w[i].value),
                          mem)
          /\ w' = [w EXCEPT ![i].pc = "done"]
    /\ op' = "write"
    /\ UNCHANGED <<T, arg, pre, bp, out, ret, flag, cnt, U, order, endian,
                   dom, parts, center, right, mem0, access, shared,
                   capacity>>

NextRace ==
    \/ WriteAtomic
    \/ WriteLoad
    \/ WriteStore

SpecRace == InitRace /\ [][NextRace]_vars

----------------------------------------------------------------------------
(* BitArray from a bit-slice (src/src/array/traits.rs).                    *)

\* V::const_bits() for V = [T; n]
const_bits(t, n) == n * BITS(t)

Ok(v) == [out |-> "ok", val |-> v]

\* TryFromBitSliceError::err(src): the error holds the slice.
Err(p) == [out |-> "err", val |-> p]

\* The conversion to a reference without the test of the head.
try_from_ref_any_head(t, n, p) ==
    IF len(p) # const_bits(t, n) THEN Err(p)
    ELSE Ok(pointer(t, p))

\* TryFrom<&BitSlice> for &BitArray and TryFrom<&mut BitSlice> for
\* &mut BitArray: the array is the slice's first element's address, cast.
try_from_ref(t, n, p) ==
    IF len(p) # const_bits(t, n) \/ head(t, p) # 0 THEN Err(p)
    ELSE Ok(pointer(t, p))

\* BitArray::zeroed(): n elements with no bit set
zeroed(n) == [k \in 0 .. (n - 1) |-> {}]

\* BitSlice::copy_from_bitslice into an array, bit by bit: the array after
\* the first `upto` bits of src are copied.
RECURSIVE copy_from_bitslice(_, _, _, _, _, _, _)
copy_from_bitslice(t, o, e, arr, p, m, upto) ==
    IF upto = 0 THEN arr
    ELSE LET done == copy_from_bitslice(t, o, e, arr, p, m, upto - 1)
             eb   == offset(t, 0, upto - 1)
         IN  [done EXCEPT ![eb[1]] =
                  write_bit(t, o, done[eb[1]], eb[2],
                            read(t, o, e, p, upto - 1, m))]

\* TryFrom<&BitSlice> for BitArray
try_from_owned(t, o, e, n, p, m) ==
    IF len(p) # const_bits(t, n) THEN Err(p)
    ELSE Ok(copy_from_bitslice(t, o, e, zeroed(n), p, m, len(p)))

\* Slice lengths around the array's.
ArrayLens(t, n) ==
    {l \in {0, 1, const_bits(t, n) - 1, const_bits(t, n),
            const_bits(t, n) + 1} : l <= REGION_MAX_BITS}

\* A slice of some storage and an array type [T; arg.v] to convert it to.
InitArray ==
    /\ T \in Types
    /\ U = T
    /\ order \in Orders
    /\ endian \in Endians
    /\ \E a \in RWAddrs(T), h \in AlignHeads(T), v \in 1 .. MaxArrayElts :
          \E n \in ArrayLens(T, v) :
             /\ new(T, a, h, n).out = "some"
             /\ arg = [a |-> a, h |-> h, n |-> n, v |-> v]
             /\ bp = new(T, a, h, n).val
    /\ mem \in MemInputs(T, bp)
    /\ mem0 = mem
    /\ op = "new"
    /\ pre = bp
    /\ out = "some"
    /\ ret = 0
    /\ flag = FALSE
    /\ cnt = 0
    /\ dom = NoDomain
    /\ parts = NoParts
    /\ center = None
    /\ right = None
    /\ access = "plain"
    /\ shared = FALSE
    /\ w = <<>>
    /\ capacity = 0

\* <&BitArray>::try_from(&slice): ret is the array's address on success, bp
\* the slice the error holds on failure.
CallTryFromRef ==
    /\ op = "new"
    /\ op' = "try_from_ref"
    /\ out' = try_from_ref(T, arg.v, bp).out
    /\ ret' = IF try_from_ref(T, arg.v, bp).out = "ok"
              THEN try_from_ref(T, arg.v, bp).val ELSE 0
    /\ bp' = IF try_from_ref(T, arg.v, bp).out = "err"
             THEN try_from_ref(T, arg.v, bp).val ELSE None
    /\ UNCHANGED <<T, arg, pre, flag, cnt, ext>>

\* <&mut BitArray>::try_from(&mut slice)
CallTryFromMut ==
    /\ op = "new"
    /\ op' = "try_from_mut"
    /\ out' = try_from_ref(T, arg.v, bp).out
    /\ ret' = IF try_from_ref(T, arg.v, bp).out = "ok"
              THEN try_from_ref(T, arg.v, bp).val ELSE 0
    /\ bp' = IF try_from_ref(T, arg.v, bp).out = "err"
             THEN try_from_ref(T, arg.v, bp).val ELSE None
    /\ UNCHANGED <<T, arg, pre, flag, cnt, ext>>

\* BitArray::try_from(&slice): ret is the array on success.
CallTryFromOwned ==
    /\ op = "new"
    /\ op' = "try_from_owned"
    /\ LET r == try_from_owned(T, order, endian, arg.v, bp, mem) IN
          /\ out' = r.out
          /\ ret' = IF r.out = "ok" THEN r.val ELSE 0
          /\ bp' = IF r.out = "err" THEN r.val ELSE None
    /\ UNCHANGED <<T, arg, pre, flag, cnt, ext>>

NextArray ==
    \/ CallTryFromRef
    \/ CallTryFromMut
    \/ CallTryFromOwned

SpecArray == InitArray /\ [][NextArray]_vars

----------------------------------------------------------------------------
(* BitVec: capacity and alignment (src/src/vec/tests.rs).                  *)

\* mem::elts::<T>(bits): the elements that hold `bits` bits
elts(t, bits) == (bits + BITS(t) - 1) \div BITS(t)

\* BitVec::capacity(), in bits: the allocated elements less the dead bits
\* before the head.
vec_capacity(t, p, capa) ==
    IF capa * BITS(t) >= head(t, p) THEN capa * BITS(t) - head(t, p) ELSE 0

\* BitVec::with_capacity(n): the elements to allocate, or the panic
\* "Vector capacity exceeded".
with_capacity(t, n) ==
    IF n > REGION_MAX_BITS THEN Panic ELSE Ok(elts(t, n))

\* BitVec::reserve(additional) and reserve_exact(additional) up to the
\* allocation: the elements the buffer has to hold, or the panic of the
\* first assertion (the sum wraps the word) or of the second (the sum is
\* above MAX_BITS).
reserve(t, p, additional) ==
    LET new_len == len(p) + additional IN
    IF new_len >= Top THEN Panic
    ELSE IF new_len > REGION_MAX_BITS THEN Panic
    ELSE Ok(span(t, head(t, p), new_len))

VecHeads(t) == AlignHeads(t) \cup {2}

VecLens(t) ==
    {0, 1, MaxMutLen, BITS(t) - 2, BITS(t), BITS(t) + 1} \cup TestLens

\* How much is asked for by a vector of n bits: little, up to the limit
\* and one past it, up to the word and one past it.
AdditionalInputs(n) ==
    ({0, 1, MaxMutLen, REGION_MAX_BITS, Top - 1}
     \cup {REGION_MAX_BITS - n + k : k \in 0 .. 1}
     \cup {Top - 1 - n + k : k \in 0 .. 1})
    \cap (0 .. (Top - 1))

\* Where the buffer is after a reallocation.
MovedAddr(t, a) == a + (Top \div 4)

\* The memory that holds at the address `to` what m holds at `from`.
moved(m, from, to) == {c + 8 * (to - from) : c \in m}

\* Every byte 0xA5, the element of the crate's force_align test.
AllA5(t, p) == {c \in Storage(t, p) : c % 8 \in {0, 2, 5, 7}}

VecMemInputs(t, p) == {{}, Storage(t, p), AllA5(t, p)}

\* A bit-vector: its region pointer bp, its buffer of `capacity` elements
\* and the memory of that buffer.
InitVec ==
    /\ T \in Types
    /\ U = T
    /\ order \in Orders
    /\ endian \in Endians
    /\ \E a \in RWAddrs(T), h \in VecHeads(T), n \in VecLens(T) :
          /\ new(T, a, h, n).out = "some"
          /\ arg = Args(a, h, n)
          /\ bp = new(T, a, h, n).val
    /\ capacity \in {elements(T, bp) + k : k \in 0 .. MaxSlack}
    /\ mem \in VecMemInputs(T, bp)
    /\ mem0 = mem
    /\ op = "vec"
    /\ pre = bp
    /\ out = "some"
    /\ ret = 0
    /\ flag = FALSE
    /\ cnt = 0
    /\ dom = NoDomain
    /\ parts = NoParts
    /\ center = None
    /\ right = None
    /\ access = "plain"
    /\ shared = FALSE
    /\ w = <<>>

\* BitVec::with_capacity(n): a new, empty vector.
CallWithCapacity ==
    /\ op = "vec"
    /\ \E n \in AdditionalInputs(0), k \in 0 .. MaxSlack :
          /\ arg' = Args(0, 0, n)
          /\ out' = IF with_capacity(T, n).out = "ok" THEN "some" ELSE "panic"
          /\ capacity' = IF with_capacity(T, n).out = "ok"
                         THEN with_capacity(T, n).val + k ELSE capacity
          /\ bp' = IF with_capacity(T, n).out = "ok"
                   THEN Ptr(pointer(T, bp), 0) ELSE bp
    /\ op' = "with_capacity"
    /\ pre' = bp
    /\ UNCHANGED <<T, ret, flag, cnt, U, order, endian, dom, parts, center,
                   right, mem, mem0, access, shared, w>>

\* What the allocator does for a buffer that has to hold `needed`
\* elements: nothing when it already does, else a buffer of at least that
\* size, in place or elsewhere, with the old contents.
Grow(needed) ==
    \/ /\ needed <= capacity
       /\ UNCHANGED <<bp, capacity, mem>>
    \/ /\ needed > capacity
       /\ \E k \in 0 .. MaxSlack : capacity' = needed + k
       /\ \/ UNCHANGED <<bp, mem>>
          \/ /\ bp' = set_pointer(T, bp, MovedAddr(T, pointer(T, bp))).val
             /\ mem' = moved(mem, pointer(T, bp),
                             MovedAddr(T, pointer(T, bp)))

CallReserve ==
    /\ op = "vec"
    /\ \E additional \in AdditionalInputs(len(bp)) :
          /\ arg' = Args(0, 0, additional)
          /\ \/ /\ reserve(T, bp, additional).out = "panic"
                /\ out' = "panic"
                /\ UNCHANGED <<bp, capacity, mem>>
             \/ /\ reserve(T, bp, additional).out = "ok"
                /\ out' = "some"
                /\ Grow(reserve(T, bp, additional).val)
    /\ op' = "reserve"
    /\ pre' = bp
    /\ UNCHANGED <<T, ret, flag, cnt, U, order, endian, dom, parts, center,
                   right, mem0, access, shared, w>>

CallReserveExact ==
    /\ op = "vec"
    /\ \E additional \in AdditionalInputs(len(bp)) :
          /\ arg' = Args(0, 0, additional)
          /\ \/ /\ reserve(T, bp, additional).out = "panic"
                /\ out' = "panic"
                /\ UNCHANGED <<bp, capacity, mem>>
             \/ /\ reserve(T, bp, additional).out = "ok"
                /\ out' = "some"
                /\ Grow(reserve(T, bp, additional).val)
    /\ op' = "reserve_exact"
    /\ pre' = bp
    /\ UNCHANGED <<T, ret, flag, cnt, U, order, endian, dom, parts, center,
                   right, mem0, access, shared, w>>

\* BitSlice::copy_within_unchecked(h .. h + n, 0) on the region q: the
\* first n bits of q become what the n bits from h on were, as a memmove.
copy_within(t, o, e, q, h, m, n) ==
    LET dest == {place(t, o, e, q, i) : i \in 0 .. (n - 1)}
        ones == {i \in 0 .. (n - 1) : read(t, o, e, q, h + i, m)}
    IN  (m \ dest) \cup {place(t, o, e, q, i) : i \in ones}

\* BitVec::force_align: the head is set to 0 and the live bits are moved
\* down to it; nothing happens when the head is 0 already.
force_align(t, o, e, p, m) ==
    IF head(t, p) = 0 THEN [bp |-> p, mem |-> m]
    ELSE LET q == set_head(t, p, 0)
         IN  [bp |-> q, mem |-> copy_within(t, o, e, q, head(t, p), m, len(p))]

\* bv.force_align(), once and once again; pre stays the first pointer.
CallForceAlign ==
    /\ op \in {"vec", "force_align"}
    /\ cnt < 2
    /\ op' = "force_align"
    /\ cnt' = cnt + 1
    /\ LET r == force_align(T, order, endian, bp, mem) IN
          /\ bp' = r.bp
          /\ mem' = r.mem
    /\ UNCHANGED <<T, arg, pre, out, ret, flag, U, order, endian, dom, parts,
                   center, right, mem0, access, shared, w, capacity>>

NextVec ==
    \/ CallWithCapacity
    \/ CallReserve
    \/ CallReserveExact
    \/ CallForceAlign

SpecVec == InitVec /\ [][NextVec]_vars

----------------------------------------------------------------------------
(* Properties of the constructors.                                         *)

\* ceil(x / d)
CeilDiv(x, d) == (x + d - 1) \div d

\* The elements a region of n bits from head h spans: none when it holds no
\* bit, else every element from the first live bit to the last.
SpanElts(t, h, n) == IF n = 0 THEN 0 ELSE CeilDiv(h + n, BITS(t))

\* The one-past-end address, as a natural number.
PastEnd(t, x) == x.a + SpanElts(t, x.h, x.n) * size_of(t)

Aligned(t, a) == a # 0 /\ trailing_zeros(a) >= PTR_HEAD_BITS(t)

\* The invariants of a region pointer, on the triple x.
ValidTriple(t, x) ==
    /\ Aligned(t, x.a)
    /\ x.h \in 0 .. (BITS(t) - 1)
    /\ x.n \in 0 .. REGION_MAX_BITS
    /\ PastEnd(t, x) < Top

\* C1: new on a triple that meets the invariants returns a value, and
\* raw_parts of that value is the triple.
C1_RoundTrip ==
    (op = "new" /\ ValidTriple(T, arg))
        => (out = "some" /\ raw_parts(T, bp) = arg)

\* A u64 pointer whose head needs the address word's low bits.
C1_Witness ==
    /\ op = "new" /\ ValidTriple(T, arg) /\ out = "some"
    /\ T = 6 /\ arg.h = 63 /\ arg.n = REGION_MAX_BITS

\* C2: a null address gives an absent value, never a panic: Address::new(0),
\* Address::from(null), new(null, ..) and bitslice_from_raw_parts(null, ..)
\* all return None.
C2_NullIsAbsent ==
    (/\ op \in {"Address::new", "Address::from", "new",
                "bitslice_from_raw_parts"}
     /\ arg.a = 0)
        => out = "none"

\* C3: on an aligned address where the region does not wrap, new refuses
\* REGION_MAX_BITS + 1 bits and accepts REGION_MAX_BITS bits, which len()
\* gives back; REGION_MAX_BITS is the greatest word shifted right by 3.
C3_LengthBound ==
    /\ REGION_MAX_BITS = (Top - 1) \div 8
    /\ (op = "new" /\ Aligned(T, arg.a))
        => /\ arg.n = REGION_MAX_BITS + 1 => out = "none"
           /\ (arg.n = REGION_MAX_BITS /\ PastEnd(T, arg) < Top)
                  => (out = "some" /\ len(bp) = REGION_MAX_BITS)

C3_Witness ==
    /\ op = "new" /\ Aligned(T, arg.a) /\ PastEnd(T, arg) < Top
    /\ arg.n = REGION_MAX_BITS /\ out = "some" /\ len(bp) = REGION_MAX_BITS

\* C4: with the other arguments valid, new refuses an address with exactly
\* PTR_HEAD_BITS - 1 trailing zero bits and accepts one with exactly
\* PTR_HEAD_BITS, where PTR_HEAD_BITS = log2(ELEMENT_BITS) - 3.
C4_AlignmentBound ==
    (/\ op = "new" /\ arg.a # 0
     /\ arg.n <= REGION_MAX_BITS /\ PastEnd(T, arg) < Top)
        => /\ 2 ^ (PTR_HEAD_BITS(T) + 3) = BITS(T)
           /\ trailing_zeros(arg.a) = PTR_HEAD_BITS(T) - 1 => out = "none"
           /\ trailing_zeros(arg.a) = PTR_HEAD_BITS(T) => out = "some"

\* A u32 region at an address that is a multiple of 2 and not of 4.
C4_Witness ==
    /\ op = "new" /\ T = 5 /\ trailing_zeros(arg.a) = 1
    /\ arg.n <= REGION_MAX_BITS /\ PastEnd(T, arg) < Top
    /\ out = "none"

\* C5: the other checks passing, new returns None exactly when
\* base + elements * size_of(T), modulo the word, is below the base; a
\* region ending exactly at the top of the address space is refused, and a
\* region of no bits never is.
C5_WrapGuard ==
    (op = "new" /\ Aligned(T, arg.a) /\ arg.n <= REGION_MAX_BITS)
        => /\ out = "none" <=> (PastEnd(T, arg) % Top) < arg.a
           /\ PastEnd(T, arg) = Top => out = "none"
           /\ arg.n = 0 => out = "some"
           /\ out \in {"some", "none"}

\* A region refused for ending exactly at the top of the address space.
C5_Witness ==
    /\ op = "new" /\ Aligned(T, arg.a) /\ arg.n <= REGION_MAX_BITS
    /\ arg.n > 0 /\ PastEnd(T, arg) = Top /\ out = "none"

\* C6: no constructor returns the all-zero pair of words: word A of every
\* returned pointer is non-zero.
C6_NeverAllZero ==
    (/\ op \in {"new", "new_unchecked", "uninhabited", "default",
                "from_bitslice_ptr"}
     /\ out = "some")
        => (bp.ptr # 0 /\ bp # None)

\* A returned pointer whose word B is zero.
C6_Witness ==
    /\ op \in {"new_unchecked", "from_bitslice_ptr"}
    /\ out = "some" /\ bp.len = 0 /\ bp.ptr # 0

----------------------------------------------------------------------------
(* Properties of the mutators and accessors.                               *)

\* C7: the canonical empty pointer has head 0 and length 0, and it is == to
\* every pointer of its element type whose length is 0, whatever that
\* pointer's address.
C7_CanonicalEmpty ==
    /\ head(T, EMPTY(T)) = 0
    /\ len(EMPTY(T)) = 0
    /\ (op = "eq" /\ len(pre) = 0) => flag

\* C8: ELEMENT_BITS calls of incr_head bring head() back to where it began
\* and move pointer() one element up, and no call changes len().
C8_HeadRollover ==
    op = "incr_head"
        => /\ len(bp) = len(pre)
           /\ cnt = BITS(T)
                  => /\ head(T, bp) = head(T, pre)
                     /\ pointer(T, bp) = pointer(T, pre) + size_of(T)

\* The address incr_head has reached after cnt calls, as a natural number.
AdvancedAddr(t, p, k) ==
    pointer(t, p) + size_of(t) * ((head(t, p) + k) \div BITS(t))

\* C8 as amended: the same, as long as the address the calls advance to is
\* still inside the address space; every such call succeeds.
C8_HeadRolloverBelowTop ==
    (op = "incr_head" /\ AdvancedAddr(T, pre, cnt) < Top)
        => /\ out = "some"
           /\ len(bp) = len(pre)
           /\ cnt = BITS(T)
                  => /\ head(T, bp) = head(T, pre)
                     /\ pointer(T, bp) = pointer(T, pre) + size_of(T)

\* A u32 pointer that began mid-element, one full element later.
C8_Witness ==
    /\ op = "incr_head" /\ AdvancedAddr(T, pre, cnt) < Top /\ out = "some"
    /\ T = 5 /\ cnt = BITS(T) /\ head(T, pre) = 13 /\ len(pre) > 0
    /\ head(T, bp) = 13 /\ pointer(T, bp) = pointer(T, pre) + 4

\* C9: set_head, set_len and set_pointer each rewrite their own field and
\* leave the other two as they were; set_len(0) keeps the address.
C9_MutatorFrames ==
    /\ op = "set_head"
           => /\ out = "some"
              /\ head(T, bp) = arg.h
              /\ pointer(T, bp) = pointer(T, pre)
              /\ len(bp) = len(pre)
    /\ (op = "set_len" /\ arg.n <= REGION_MAX_BITS)
           => /\ out = "some"
              /\ len(bp) = arg.n
              /\ pointer(T, bp) = pointer(T, pre)
              /\ head(T, bp) = head(T, pre)
    /\ (op = "set_pointer" /\ Aligned(T, arg.a))
           => /\ out = "some"
              /\ pointer(T, bp) = arg.a
              /\ head(T, bp) = head(T, pre)
              /\ len(bp) = len(pre)

\* set_len(0) on an inhabited u64 pointer whose head uses the address word.
C9_Witness ==
    /\ op = "set_len" /\ arg.n = 0 /\ T = 6
    /\ len(pre) > 0 /\ head(T, pre) > 7
    /\ len(bp) = 0 /\ pointer(T, bp) = pointer(T, pre) /\ pointer(T, bp) # 0

\* C10: elements() is (head() + len()) / ELEMENT_BITS rounded up; u8 with
\* head 2 and 20 bits gives 3, u16 with head 0 and 40 bits gives 3.
C10_Elements ==
    op = "elements"
        => /\ ret = CeilDiv(head(T, pre) + len(pre), BITS(T))
           /\ (T = 3 /\ head(T, pre) = 2 /\ len(pre) = 20) => ret = 3
           /\ (T = 4 /\ head(T, pre) = 0 /\ len(pre) = 40) => ret = 3

\* The u16 region of the crate's `inspect` test.
C10_Witness ==
    /\ op = "elements" /\ T = 4
    /\ head(T, pre) = 0 /\ len(pre) = 40 /\ ret = 3


\* C11: tail() is (head() + len()) mod ELEMENT_BITS with a result of 0
\* reported as ELEMENT_BITS; it is 0 only for the pointer with head 0 and
\* length 0, and lies in 1 ..= ELEMENT_BITS for every other pointer.
C11_Tail ==
    op = "tail"
        => LET m == (head(T, pre) + len(pre)) % BITS(T) IN
           /\ (head(T, pre) = 0 /\ len(pre) = 0) => ret = 0
           /\ ~ (head(T, pre) = 0 /\ len(pre) = 0)
                  => /\ ret = (IF m = 0 THEN BITS(T) ELSE m)
                     /\ ret \in 1 .. BITS(T)
           /\ ret = 0 <=> (head(T, pre) = 0 /\ len(pre) = 0)

\* A u16 region that ends exactly on an element boundary.
C11_Witness ==
    /\ op = "tail" /\ T = 4 /\ len(pre) > 0 /\ head(T, pre) > 0
    /\ (head(T, pre) + len(pre)) % BITS(T) = 0 /\ ret = BITS(T)


----------------------------------------------------------------------------
(* Properties of ptr_diff.                                                 *)

\* C12: for two pointers a and b into one allocation, a.ptr_diff(b) is the
\* pair of b.pointer() - a.pointer() counted in elements and
\* b.head() - a.head(); for u8, one-bit pointers at bit offsets (2, 12),
\* (5, 10), (8, 4) and (14, 1) give (1, 2), (1, -3), (-1, 4) and (-1, -5).
C12_PtrDiff ==
    op = "ptr_diff"
        => /\ ret[1] * size_of(T) = pointer(T, bp) - pointer(T, pre)
           /\ ret[2] = head(T, bp) - head(T, pre)
           /\ T = 3 => /\ (arg.h =  2 /\ arg.n = 12) => ret = <<1, 2>>
                       /\ (arg.h =  5 /\ arg.n = 10) => ret = <<1, -3>>
                       /\ (arg.h =  8 /\ arg.n =  4) => ret = <<-1, 4>>
                       /\ (arg.h = 14 /\ arg.n =  1) => ret = <<-1, -5>>

\* The last pair of the crate's test: both distances negative.
C12_Witness ==
    /\ op = "ptr_diff" /\ T = 3 /\ arg.h = 14 /\ arg.n = 1
    /\ len(pre) = 1 /\ len(bp) = 1 /\ ret = <<-1, -5>>


----------------------------------------------------------------------------
(* Properties of align_to.                                                 *)

\* The memory bits p addresses, in the order of its indices.
Reading(t, o, e, p) == [i \in 1 .. len(p) |-> place(t, o, e, p, i - 1)]

\* The memory bits of a reading, as a set.
Bits(r) == {r[i] : i \in 1 .. Len(r)}

\* The byte addresses a reading touches.
Bytes(r) == {r[i] \div 8 : i \in 1 .. Len(r)}

\* The ordering counts the bits of an element in the direction in which
\* the target lays out its bytes.
RunsWithBytes(o, e) ==
    \/ o = "Lsb0" /\ e = "little"
    \/ o = "Msb0" /\ e = "big"

\* C13: the three pointers of align_to describe, in order, exactly the
\* source's bits: their lengths add up to the source's, and reading left,
\* then center, then right yields the source's bits in the source's order,
\* none duplicated and none dropped.
C13_PartitionLaw ==
    op = "align_to"
        => /\ len(bp) + len(center) + len(right) = len(pre)
           /\ Reading(T, order, endian, bp)
                \o Reading(U, order, endian, center)
                \o Reading(T, order, endian, right)
              = Reading(T, order, endian, pre)

\* C13 as amended: the lengths add up; the three pointers address pairwise
\* disjoint memory bits which together are the source's; left lies below
\* center and center below right in memory; and the reading order is the
\* source's when center is empty, U is as wide as T or the ordering runs
\* with the target's byte order.
C13_PartitionOfMemoryBits ==
    op = "align_to"
        => LET l   == Reading(T, order, endian, bp)
               c   == Reading(U, order, endian, center)
               r   == Reading(T, order, endian, right)
               src == Reading(T, order, endian, pre)
           IN  /\ len(bp) + len(center) + len(right) = len(pre)
               /\ Cardinality(Bits(src)) = len(pre)
               /\ Bits(l) \cup Bits(c) \cup Bits(r) = Bits(src)
               /\ Bits(l) \cap Bits(c) = {}
               /\ Bits(c) \cap Bits(r) = {}
               /\ Bits(l) \cap Bits(r) = {}
               /\ \A x \in Bytes(l), y \in Bytes(c) \cup Bytes(r) : x < y
               /\ \A x \in Bytes(c), y \in Bytes(r) : x < y
               /\ (\/ len(center) = 0
                   \/ BITS(U) = BITS(T)
                   \/ RunsWithBytes(order, endian))
                      => l \o c \o r = src

\* A u8 region with a partial head and a partial tail around a u32 center,
\* under Msb0 on a little-endian target.
C13_Witness ==
    /\ op = "align_to" /\ T = 3 /\ U = 5
    /\ order = "Msb0" /\ endian = "little"
    /\ len(bp) > 0 /\ len(center) > 0 /\ len(right) > 0
    /\ head(T, pre) > 0 /\ ~ dom.enclave /\ dom.tail.some
    /\ len(bp) + len(center) + len(right) = len(pre)


\* C14: when the source is an Enclave, all its live bits inside one element
\* that they do not cover, align_to returns the source pointer unchanged as
\* left and the canonical empty pointer as center and as right.
C14_Enclave ==
    (op = "align_to" /\ dom.enclave)
        => /\ elements(T, pre) = 1
           /\ len(pre) < BITS(T)
           /\ bp = pre
           /\ center = EMPTY(U)
           /\ right = EMPTY(T)

\* A u32 Enclave in the middle of its element, split for u8.
C14_Witness ==
    /\ op = "align_to" /\ dom.enclave /\ T = 5 /\ U = 3
    /\ head(T, pre) > 0 /\ len(pre) > 0 /\ tail(T, pre) < BITS(T)
    /\ bp = pre /\ center = EMPTY(U) /\ right = EMPTY(T)

\* The body of the Domain holds a whole element of U at an address aligned
\* for U.
BodyHoldsAligned(t, u, body) ==
    \E x \in body.addr .. (body.addr + body.n * size_of(t)) :
        /\ x % size_of(u) = 0
        /\ x + size_of(u) <= body.addr + body.n * size_of(t)

\* C15: center is non-empty only when a whole U-sized, U-aligned element
\* lies inside the source's body; a non-empty center has head 0, an address
\* aligned for U inside the body and a length that is a multiple of U's
\* width; an empty center is the canonical empty pointer.
C15_Center ==
    op = "align_to"
        => /\ len(center) > 0
                  => /\ ~ dom.enclave
                     /\ BodyHoldsAligned(T, U, dom.body)
                     /\ head(U, center) = 0
                     /\ pointer(U, center) % size_of(U) = 0
                     /\ pointer(U, center) >= dom.body.addr
                     /\ pointer(U, center) + size_of(U) * (len(center) \div BITS(U))
                            <= dom.body.addr + dom.body.n * size_of(T)
                     /\ len(center) % BITS(U) = 0
           /\ len(center) = 0 => center = EMPTY(U)

\* A u64 center inside a u8 region that starts off the u64 alignment.
C15_Witness ==
    /\ op = "align_to" /\ T = 3 /\ U = 6
    /\ len(center) = BITS(U) /\ head(U, center) = 0
    /\ pointer(U, center) > pointer(T, pre)
    /\ len(bp) > 0


----------------------------------------------------------------------------
(* Properties of read and write.                                           *)

\* C16: for a valid pointer, either ordering and an index below len(),
\* write(index, v) followed at once by read(index) returns v.
C16_ReadAfterWrite ==
    op = "read" => ret = flag

\* Bit 1 of a u16 region that begins on the last bit of its first element,
\* cleared under Msb0 in memory that was all ones.
C16_Witness ==
    /\ op = "read" /\ T = 4 /\ order = "Msb0"
    /\ head(T, bp) = BITS(T) - 1 /\ arg.n = 1
    /\ flag = FALSE /\ ret = FALSE
    /\ mem0 = Storage(T, bp)

\* The memory bits that differ between m and n.
Changed(m, n) == (m \ n) \cup (n \ m)

\* The memory bits of the element of type t at address a.
ElementBits(t, a) == {8 * b + k : b \in a .. (a + size_of(t) - 1), k \in 0 .. 7}

\* C17: write(index, v) changes at most the bit with index
\* (head + index) mod ELEMENT_BITS of element (head + index) / ELEMENT_BITS:
\* the other bits of that element, the other elements and the pointer are as
\* before; read(index) changes nothing.
C17_WriteFrame ==
    op \in {"write", "read"}
        => LET far  == head(T, pre) + arg.n
               a    == pointer(T, pre) + (far \div BITS(T)) * size_of(T)
               bit  == far % BITS(T)
               here == cell(T, endian, a, at(T, order, bit))
           IN  /\ Changed(mem, mem0) \subseteq {here}
               /\ here \in ElementBits(T, a)
               /\ here \in mem <=> flag
               /\ bp = pre
               /\ raw_parts(T, bp) = raw_parts(T, pre)

\* A write that changed its bit, in the second element of a u32 region
\* whose memory had every third bit set.
C17_Witness ==
    /\ op = "write" /\ T = 5 /\ arg.n > 0
    /\ head(T, pre) + arg.n >= BITS(T)
    /\ Cardinality(Changed(mem, mem0)) = 1
    /\ mem0 # {} /\ mem0 # Storage(T, pre)


\* C18: two pointers into one element with disjoint bits may be written
\* concurrently: whatever the interleaving, once both writes are done each
\* written bit holds what its writer wrote and no other bit has changed.
C18_NoLostUpdate ==
    (\A i \in 1 .. 2 : w[i].pc = "done")
        => /\ \A i \in 1 .. 2 :
                 place(T, order, endian, w[i].p, w[i].index) \in mem
                     <=> w[i].value
           /\ Changed(mem, mem0)
                \subseteq {place(T, order, endian, w[i].p, w[i].index) :
                              i \in 1 .. 2}

\* Two threads that both changed their bit of one u8.
C18_Witness ==
    /\ shared /\ T = 3
    /\ \A i \in 1 .. 2 : w[i].pc = "done"
    /\ pointer(T, w[1].p) = pointer(T, w[2].p)
    /\ Cardinality(Changed(mem, mem0)) = 2


----------------------------------------------------------------------------
(* Properties of uninhabited and bitslice_from_raw_parts.                  *)

\* C19: uninhabited on a non-null address aligned for T returns a pointer
\* with len() 0, head() 0 and pointer() the address; on an address that is
\* not aligned enough it returns the canonical empty pointer and does not
\* abort.
C19_UninhabitedFallsBack ==
    (op = "uninhabited" /\ arg.a # 0)
        => /\ Aligned(T, arg.a)
                  => /\ out = "some"
                     /\ len(bp) = 0
                     /\ head(T, bp) = 0
                     /\ pointer(T, bp) = arg.a
           /\ ~ Aligned(T, arg.a)
                  => (out = "some" /\ bp = EMPTY(T))

\* C19 as amended: the same on an aligned address; on an address that is
\* not aligned enough uninhabited panics and returns nothing.
C19_UninhabitedPanics ==
    (op = "uninhabited" /\ arg.a # 0)
        => /\ Aligned(T, arg.a)
                  => /\ out = "some"
                     /\ len(bp) = 0
                     /\ head(T, bp) = 0
                     /\ pointer(T, bp) = arg.a
           /\ ~ Aligned(T, arg.a) => out = "panic"

\* A u32 address that is a multiple of 2 and not of 4.
C19_Witness ==
    /\ op = "uninhabited" /\ T = 5 /\ arg.a # 0
    /\ trailing_zeros(arg.a) = 1 /\ out = "panic"


\* The failure conditions of bitslice_from_raw_parts on the arguments x,
\* the head being a BitIdx and so always below T::Mem::BITS.
RawPartsRefused(t, x) ==
    \/ x.h >= BITS(t)
    \/ x.n > REGION_MAX_BITS
    \/ trailing_zeros(x.a) < PTR_HEAD_BITS(t)
    \/ (PastEnd(t, x) % Top) < x.a

\* C20: bitslice_from_raw_parts and bitslice_from_raw_parts_mut return None
\* when the head is not below T::Mem::BITS, when bits is above MAX_BITS,
\* when addr is not aligned for T or when the region wraps the address
\* space; otherwise they return Some pointer that decodes to the arguments.
C20_RawParts ==
    op = "bitslice_from_raw_parts"
        => /\ RawPartsRefused(T, arg) => out = "none"
           /\ ~ RawPartsRefused(T, arg)
                  => /\ out = "some"
                     /\ raw_parts(T, from_bitslice_ptr(T, bp.ptr, bp.len)) = arg


----------------------------------------------------------------------------
(* Properties of the BitArray conversions.                                 *)

\* C21: a bit-slice reference, shared or mutable, converts to a BitArray
\* reference exactly when its length is V::const_bits() and its head is 0,
\* and otherwise the error holds the slice; the owned conversion succeeds
\* exactly when the length is V::const_bits(), and the array's bits are
\* then the slice's; no conversion modifies the slice's memory.
C21_TryFrom ==
    /\ op \in {"try_from_ref", "try_from_mut"}
           => /\ out = "ok" <=> (len(pre) = arg.v * BITS(T) /\ head(T, pre) = 0)
              /\ out = "ok" => ret = pointer(T, pre)
              /\ out # "ok" => (out = "err" /\ bp = pre)
              /\ mem = mem0
    /\ op = "try_from_owned"
           => /\ out = "ok" <=> len(pre) = arg.v * BITS(T)
              /\ out = "ok"
                     => \A i \in 0 .. (len(pre) - 1) :
                           get_bit(T, order, ret[i \div BITS(T)], i % BITS(T))
                               <=> place(T, order, endian, pre, i) \in mem0
              /\ out # "ok" => (out = "err" /\ bp = pre)
              /\ mem = mem0

\* An owned [u16; 2] made under Msb0 from a slice that begins in the
\* middle of its first element.
C21_Witness ==
    /\ op = "try_from_owned" /\ out = "ok" /\ T = 4 /\ arg.v = 2
    /\ order = "Msb0" /\ head(T, pre) = BITS(T) \div 2
    /\ mem0 # {} /\ mem0 # Storage(T, pre)


----------------------------------------------------------------------------
(* Properties of BitVec.                                                   *)

\* The values of the bits of p in the memory m, in the order of its
\* indices.
Contents(t, o, e, p, m) ==
    [i \in 1 .. len(p) |-> place(t, o, e, p, i - 1) \in m]

C24_IncrHeadOnce ==
    (op = "incr_head" /\ cnt = 1)
        => LET h == head(T, pre)
               a == pointer(T, pre)
           IN  /\ out = "some"
               /\ len(bp) = len(pre)
               /\ h + 1 < BITS(T)
                      => (head(T, bp) = h + 1 /\ pointer(T, bp) = a)
               /\ h = BITS(T) - 1
                      <=> (head(T, bp) = 0 /\ pointer(T, bp) = a + size_of(T))

\* C24 as amended: the same for a pointer whose next element's address is
\* still inside the address space whenever the head is the last bit.
C24_IncrHeadOnceBelowTop ==
    (op = "incr_head" /\ cnt = 1 /\ AdvancedAddr(T, pre, 1) < Top)
        => LET h == head(T, pre)
               a == pointer(T, pre)
           IN  /\ out = "some"
               /\ len(bp) = len(pre)
               /\ h + 1 < BITS(T)
                      => (head(T, bp) = h + 1 /\ pointer(T, bp) = a)
               /\ h = BITS(T) - 1
                      <=> (head(T, bp) = 0 /\ pointer(T, bp) = a + size_of(T))

\* A u64 pointer at its last bit, one call later at the next element.
C24_Witness ==
    /\ op = "incr_head" /\ cnt = 1 /\ out = "some" /\ T = 6
    /\ head(T, pre) = 63 /\ len(pre) > 0
    /\ head(T, bp) = 0 /\ pointer(T, bp) = pointer(T, pre) + 8
    /\ len(bp) = len(pre)


\* C25: outside an Enclave the left pointer of align_to begins, when the
\* region has a partial head element at (address, h), at that address with
\* head h and holds the ELEMENT_BITS - h bits of it and every bit of the
\* left leftover; with no partial head it is the left leftover from bit 0
\* when that has elements, and the canonical empty pointer otherwise.
C25_AlignToLeft ==
    (op = "align_to" /\ ~dom.enclave)
        => LET l_bits == parts.l.n * BITS(T) IN
           /\ dom.head.some
                  => /\ pointer(T, bp) = dom.head.addr
                     /\ head(T, bp) = dom.head.idx
                     /\ len(bp) = (BITS(T) - dom.head.idx) + l_bits
           /\ (~dom.head.some /\ parts.l.n > 0)
                  => /\ pointer(T, bp) = parts.l.addr
                     /\ head(T, bp) = 0
                     /\ len(bp) = l_bits
           /\ (~dom.head.some /\ parts.l.n = 0) => bp = EMPTY(T)

\* A partial head element followed by a left leftover of whole elements.
C25_Witness ==
    /\ op = "align_to" /\ ~dom.enclave
    /\ dom.head.some /\ dom.head.idx > 0 /\ parts.l.n > 0 /\ parts.c.n > 0
    /\ head(T, bp) = dom.head.idx
    /\ len(bp) = (BITS(T) - dom.head.idx) + parts.l.n * BITS(T)

\* C26: outside an Enclave the right pointer of align_to has head 0; it
\* begins at the right leftover when that has elements and at the partial
\* tail element otherwise, and holds every bit of the right leftover and
\* the live bits of the tail; with neither it is the canonical empty
\* pointer.
C26_AlignToRight ==
    (op = "align_to" /\ ~dom.enclave)
        => LET r_bits == parts.r.n * BITS(T)
               t_bits == IF dom.tail.some THEN dom.tail.idx ELSE 0
           IN
           /\ head(T, right) = 0
           /\ len(right) = r_bits + t_bits
           /\ parts.r.n > 0 => pointer(T, right) = parts.r.addr
           /\ (parts.r.n = 0 /\ dom.tail.some)
                  => pointer(T, right) = dom.tail.addr
           /\ (parts.r.n = 0 /\ ~dom.tail.some) => right = EMPTY(T)

\* A right leftover of whole elements followed by a partial tail element.
C26_Witness ==
    /\ op = "align_to" /\ ~dom.enclave
    /\ dom.tail.some /\ dom.tail.idx > 0 /\ parts.r.n > 0 /\ parts.c.n > 0
    /\ pointer(T, right) = parts.r.addr /\ head(T, right) = 0
    /\ len(right) = parts.r.n * BITS(T) + dom.tail.idx


\* C27: for a valid triple (a, h, n) word A of the encoded value is
\* a | (h >> 3) and word B is (n << 3) | (h & 7); the head bits of word A
\* lie in its low PTR_HEAD_BITS bits, which are zero in a, so that no bit
\* of the address is overwritten, and n << 3 loses no bit of n.
C27_PackingLayout ==
    (/\ op \in {"new", "new_unchecked"}
     /\ ValidTriple(T, arg))
        => LET low == 2 ^ PTR_HEAD_BITS(T) IN
           /\ out = "some"
           /\ bp.ptr = BitOr(arg.a, arg.h \div 8)
           /\ bp.len = BitOr((arg.n * 8) % Top, arg.h % 8)
           /\ arg.h \div 8 < low
           /\ arg.a % low = 0
           /\ bp.ptr = arg.a + (arg.h \div 8)
           /\ bp.ptr - (bp.ptr % low) = arg.a
           /\ arg.n * 8 < Top
           /\ bp.len = arg.n * 8 + (arg.h % 8)

\* A u32 triple with head bits in both words and the longest length.
C27_Witness ==
    /\ op = "new_unchecked" /\ ValidTriple(T, arg) /\ out = "some"
    /\ T = 5 /\ arg.h = 29 /\ arg.n = REGION_MAX_BITS
    /\ bp.ptr = arg.a + 3 /\ bp.len = REGION_MAX_BITS * 8 + 5


\* C28: from a pointer new returned, through any sequence of set_head,
\* set_len, set_pointer and incr_head on arguments within their ranges,
\* raw_parts() is the record the same calls give on an (address, head, len)
\* triple, head() is below ELEMENT_BITS, len() is at most REGION_MAX_BITS,
\* and pointer() is non-null with its low PTR_HEAD_BITS bits zero.
C28_Refinement ==
    /\ raw_parts(T, bp) = arg
    /\ head(T, bp) < BITS(T)
    /\ len(bp) <= REGION_MAX_BITS
    /\ pointer(T, bp) # 0
    /\ pointer(T, bp) % (2 ^ PTR_HEAD_BITS(T)) = 0

\* A u64 pointer one element above the middle of the address space after
\* MaxSteps calls, of which the last rolled the head over.
C28_Witness ==
    /\ op = "incr_head" /\ cnt = MaxSteps /\ T = 6
    /\ pointer(T, bp) = (Top \div 2) + size_of(T)
    /\ head(T, bp) = 0 /\ len(bp) = REGION_MAX_BITS
    /\ raw_parts(T, bp) = arg


====
